---------------------------- MODULE Spec2Model ----------------------------
(***************************************************************************)
(* A model of the daily/weekly note plugin (main.ts): the ISO week         *)
(* calculator, the date formatter, the placeholder substitution, the       *)
(* frontmatter property injection and the processNote request.             *)
(*                                                                         *)
(* A Date is its time value in hours since 1970-01-01T00:00Z; a string is  *)
(* the sequence of its characters.                                         *)
(***************************************************************************)
EXTENDS Integers, Sequences, FiniteSets, TLC

VARIABLES
    cal,       \* the calendar calculator's argument and results
    fmt,       \* the date formatter's arguments and result
    inj,       \* the injection's arguments and result
    subst,     \* the placeholder substitution's arguments and results
    settings,  \* this.settings
    clock,     \* the instant new Date() returns
    tz,        \* the time zone of the device
    folders,   \* the vault: paths that are folders
    files,     \* the vault: path -> content of the files
    req        \* the processNote requests

pluginVars == <<settings, clock, tz, folders, files, req>>
vars == <<cal, fmt, inj, subst, settings, clock, tz, folders, files, req>>

NoCal == [pc |-> "off"]
NoFmt == [pc |-> "off"]
NoInj == [pc |-> "off"]
NoSub == [pc |-> "off"]

\* the plugin is not part of the pure function checks
PluginOff ==
    /\ settings = "off"
    /\ clock = 0
    /\ tz = "off"
    /\ folders = {}
    /\ files = <<>>
    /\ req = <<>>

(***************************************************************************)
(* Bounds of the model.                                                    *)
(***************************************************************************)
\* the calendar checks cover every day of the years FirstYear..LastYear
FirstYear == 2000
LastYear == 2027

(***************************************************************************)
(* The Date built-ins the code calls.                                      *)
(***************************************************************************)
\* 86400000 ms, in the model's unit (hours)
HoursPerDay == 24

\* days from 1970-01-01 to the civil date y-m-d (m in 1..12); d may lie
\* outside the month, as Date.UTC and setUTCDate allow
DaysFromCivil(y, m, d) ==
    LET yy  == IF m <= 2 THEN y - 1 ELSE y
        era == yy \div 400
        yoe == yy - era * 400
        mp  == IF m > 2 THEN m - 3 ELSE m + 9
        doy == (153 * mp + 2) \div 5 + d - 1
        doe == yoe * 365 + yoe \div 4 - yoe \div 100 + doy
    IN  era * 146097 + doe - 719468

\* the civil date of a day number
CivilFromDays(z) ==
    LET zz  == z + 719468
        era == zz \div 146097
        doe == zz - era * 146097
        yoe == (doe - doe \div 1460 + doe \div 36524 - doe \div 146096) \div 365
        doy == doe - (365 * yoe + yoe \div 4 - yoe \div 100)
        mp  == (5 * doy + 2) \div 153
        d   == doy - (153 * mp + 2) \div 5 + 1
        m   == IF mp < 10 THEN mp + 3 ELSE mp - 9
        y   == yoe + era * 400 + (IF m <= 2 THEN 1 ELSE 0)
    IN  [year |-> y, month |-> m, day |-> d]

\* the caller's time zones: hours east of UTC
Zones == {"UTC-5", "UTC", "UTC+9"}

\* the daylight saving period of 2024 in New York: 2024-03-10T07:00Z up to
\* 2024-11-03T06:00Z
DaylightStart == HoursPerDay * DaysFromCivil(2024, 3, 10) + 7
DaylightEnd == HoursPerDay * DaysFromCivil(2024, 11, 3) + 6

\* the zone's UTC offset at instant t
Offset(zone, t) ==
    CASE zone = "UTC-5" -> -5
      [] zone = "UTC"   -> 0
      [] zone = "UTC+9" -> 9
      [] zone = "America/New_York" ->
            IF DaylightStart <= t /\ t < DaylightEnd THEN -4 ELSE -5

\* Date.UTC(year, monthIndex, day)
DateUTC(y, m0, d) == HoursPerDay * DaysFromCivil(y, m0 + 1, d)

UTCFields(t) == CivilFromDays(t \div HoursPerDay)
getUTCFullYear(t) == UTCFields(t).year
getUTCMonth(t) == UTCFields(t).month - 1
getUTCDate(t) == UTCFields(t).day
\* 0 is Sunday; 1970-01-01 was a Thursday
getUTCDay(t) == ((t \div HoursPerDay) + 4) % 7

\* local getters that read the UTC fields whatever the zone
LocalFieldsIgnoringZone(t, zone) == CivilFromDays(t \div HoursPerDay)

LocalFields(t, zone) == CivilFromDays((t + Offset(zone, t)) \div HoursPerDay)
getFullYear(t, zone) == LocalFields(t, zone).year
getMonth(t, zone) == LocalFields(t, zone).month - 1
getDate(t, zone) == LocalFields(t, zone).day

\* d.setUTCDate(n): the day of the month becomes n, the time of day stays
setUTCDate(t, n) ==
    HoursPerDay * DaysFromCivil(getUTCFullYear(t), getUTCMonth(t) + 1, n)
        + (t % HoursPerDay)

\* Math.ceil(num / den), den > 0
CeilDiv(num, den) == -((-num) \div den)

(***************************************************************************)
(* Calendar calculator.                                                    *)
(***************************************************************************)
\* a broken shift: Sunday is counted as day 0 of the following week
ThursdayShiftSundayZero(t) == setUTCDate(t, getUTCDate(t) + 4 - getUTCDay(t))

\* d.setUTCDate(d.getUTCDate() + 4 - (d.getUTCDay() || 7))
ThursdayShift(t) ==
    setUTCDate(t, getUTCDate(t) + 4 - (IF getUTCDay(t) = 0 THEN 7 ELSE getUTCDay(t)))

getWeekOfYear(date, zone) ==
    LET d0 == DateUTC(getFullYear(date, zone), getMonth(date, zone), getDate(date, zone))
        d  == ThursdayShift(d0)
        yearStart == DateUTC(getUTCFullYear(d), 0, 1)
    IN  CeilDiv((d - yearStart) + HoursPerDay, 7 * HoursPerDay)

getISOWeekStartDate(date, zone) ==
    LET d0 == DateUTC(getFullYear(date, zone), getMonth(date, zone), getDate(date, zone))
        d  == ThursdayShift(d0)
    IN  setUTCDate(d, getUTCDate(d) - 3)

(***************************************************************************)
(* The calendar calculator on every date of the range: one Date is drawn,  *)
(* then the two functions are applied to it, and getWeekOfYear to the      *)
(* week start that getISOWeekStartDate returned.                           *)
(***************************************************************************)
CalHours == {0, 12, 23}
CalFirstDay == DaysFromCivil(FirstYear, 1, 1)
CalLastDay == DaysFromCivil(LastYear, 12, 31)

InitCal ==
    /\ \E day \in CalFirstDay..CalLastDay, h \in CalHours, z \in Zones :
          cal = [pc |-> "drawn", date |-> HoursPerDay * day + h, zone |-> z]
    /\ fmt = NoFmt
    /\ inj = NoInj
    /\ subst = NoSub
    /\ PluginOff

CalWeekOfYear ==
    /\ cal.pc = "drawn"
    /\ cal' = [pc |-> "week", date |-> cal.date, zone |-> cal.zone,
               weekNo |-> getWeekOfYear(cal.date, cal.zone)]
    /\ UNCHANGED <<fmt, inj, subst, pluginVars>>

CalWeekStart ==
    /\ cal.pc = "week"
    /\ cal' = [pc |-> "start", date |-> cal.date, zone |-> cal.zone,
               weekNo |-> cal.weekNo,
               weekStart |-> getISOWeekStartDate(cal.date, cal.zone)]
    /\ UNCHANGED <<fmt, inj, subst, pluginVars>>

CalWeekOfStart ==
    /\ cal.pc = "start"
    /\ cal' = [pc |-> "done", date |-> cal.date, zone |-> cal.zone,
               weekNo |-> cal.weekNo, weekStart |-> cal.weekStart,
               startWeekNo |-> getWeekOfYear(cal.weekStart, cal.zone)]
    /\ UNCHANGED <<fmt, inj, subst, pluginVars>>

NextCal == CalWeekOfYear \/ CalWeekStart \/ CalWeekOfStart

SpecCal == InitCal /\ [][NextCal]_vars

(***************************************************************************)
(* Strings: a string is the sequence of its characters.                    *)
(***************************************************************************)
Digits == <<"0", "1", "2", "3", "4", "5", "6", "7", "8", "9">>

\* Number.prototype.toString of a non-negative integer
RECURSIVE toString(_)
toString(n) ==
    IF n < 10 THEN <<Digits[n + 1]>>
    ELSE toString(n \div 10) \o <<Digits[(n % 10) + 1]>>

\* a padding that leaves the string as it is
padStart2None(s) == s

\* s.padStart(2, '0')
padStart2(s) == IF Len(s) < 2 THEN <<"0">> \o s ELSE s

\* s.slice(-2)
sliceLast2(s) == IF Len(s) <= 2 THEN s ELSE SubSeq(s, Len(s) - 1, Len(s))

\* s.substring(0, 3)
substring3(s) == IF Len(s) <= 3 THEN s ELSE SubSeq(s, 1, 3)

\* the pattern pat (literal characters) matches s at index i
MatchesAt(s, i, pat) ==
    /\ i + Len(pat) - 1 <= Len(s)
    /\ \A k \in 1..Len(pat) : s[i + k - 1] = pat[k]

\* s.replace(new RegExp(pat, 'g'), rep): every match, left to right, the
\* search resuming after each match
RECURSIVE ReplaceFrom(_, _, _, _)
ReplaceFrom(s, i, pat, rep) ==
    IF i > Len(s) THEN <<>>
    ELSE IF MatchesAt(s, i, pat) THEN rep \o ReplaceFrom(s, i + Len(pat), pat, rep)
    ELSE <<s[i]>> \o ReplaceFrom(s, i + 1, pat, rep)

replaceAll(s, pat, rep) == ReplaceFrom(s, 1, pat, rep)

\* s.endsWith(suffix)
endsWith(s, suffix) ==
    /\ Len(suffix) <= Len(s)
    /\ SubSeq(s, Len(s) - Len(suffix) + 1, Len(s)) = suffix

(***************************************************************************)
(* Date formatter.                                                         *)
(***************************************************************************)
monthNames == <<
      <<"J", "a", "n", "u", "a", "r", "y">>,
      <<"F", "e", "b", "r", "u", "a", "r", "y">>,
      <<"M", "a", "r", "c", "h">>,
      <<"A", "p", "r", "i", "l">>,
      <<"M", "a", "y">>,
      <<"J", "u", "n", "e">>,
      <<"J", "u", "l", "y">>,
      <<"A", "u", "g", "u", "s", "t">>,
      <<"S", "e", "p", "t", "e", "m", "b", "e", "r">>,
      <<"O", "c", "t", "o", "b", "e", "r">>,
      <<"N", "o", "v", "e", "m", "b", "e", "r">>,
      <<"D", "e", "c", "e", "m", "b", "e", "r">> >>

dayNames == <<
      <<"S", "u", "n", "d", "a", "y">>,
      <<"M", "o", "n", "d", "a", "y">>,
      <<"T", "u", "e", "s", "d", "a", "y">>,
      <<"W", "e", "d", "n", "e", "s", "d", "a", "y">>,
      <<"T", "h", "u", "r", "s", "d", "a", "y">>,
      <<"F", "r", "i", "d", "a", "y">>,
      <<"S", "a", "t", "u", "r", "d", "a", "y">> >>

\* the weekday names are put in before the month and day numbers
formatDateWeekdayFirst(date, format) ==
    LET year  == getUTCFullYear(date)
        month == getUTCMonth(date) + 1
        day   == getUTCDate(date)
        dayOfWeek == getUTCDay(date)
        s1  == replaceAll(format, <<"Y", "Y", "Y", "Y">>, toString(year))
        s2  == replaceAll(s1, <<"Y", "Y">>, sliceLast2(toString(year)))
        s3  == replaceAll(s2, <<"d", "d", "d", "d">>, dayNames[dayOfWeek + 1])
        s4  == replaceAll(s3, <<"d", "d", "d">>, substring3(dayNames[dayOfWeek + 1]))
        s5  == replaceAll(s4, <<"M", "M", "M", "M">>, monthNames[month])
        s6  == replaceAll(s5, <<"M", "M", "M">>, substring3(monthNames[month]))
        s7  == replaceAll(s6, <<"M", "M">>, padStart2(toString(month)))
        s8  == replaceAll(s7, <<"M">>, toString(month))
        s9  == replaceAll(s8, <<"D", "D">>, padStart2(toString(day)))
        s10 == replaceAll(s9, <<"D">>, toString(day))
    IN  s10

formatDate(date, format) ==
    LET year  == getUTCFullYear(date)
        month == getUTCMonth(date) + 1
        day   == getUTCDate(date)
        dayOfWeek == getUTCDay(date)
        s1  == replaceAll(format, <<"Y", "Y", "Y", "Y">>, toString(year))
        s2  == replaceAll(s1, <<"Y", "Y">>, sliceLast2(toString(year)))
        s3  == replaceAll(s2, <<"M", "M", "M", "M">>, monthNames[month])
        s4  == replaceAll(s3, <<"M", "M", "M">>, substring3(monthNames[month]))
        s5  == replaceAll(s4, <<"M", "M">>, padStart2(toString(month)))
        s6  == replaceAll(s5, <<"M">>, toString(month))
        s7  == replaceAll(s6, <<"D", "D">>, padStart2(toString(day)))
        s8  == replaceAll(s7, <<"D">>, toString(day))
        s9  == replaceAll(s8, <<"d", "d", "d", "d">>, dayNames[dayOfWeek + 1])
        s10 == replaceAll(s9, <<"d", "d", "d">>, substring3(dayNames[dayOfWeek + 1]))
    IN  s10

(***************************************************************************)
(* The date formatter on every day of FmtFirstYear..FmtLastYear and a set  *)
(* of format strings: each recognized token alone, and the formats the     *)
(* settings tab and the README show.                                       *)
(***************************************************************************)
FmtFirstYear == 2024
FmtLastYear == 2024
FmtHours == {0, 13}

TokenFormats == {
    <<"Y", "Y", "Y", "Y">>,
    <<"Y", "Y">>,
    <<"M", "M", "M", "M">>,
    <<"M", "M", "M">>,
    <<"M", "M">>,
    <<"M">>,
    <<"D", "D">>,
    <<"D">>,
    <<"d", "d", "d", "d">>,
    <<"d", "d", "d">> }

Formats == TokenFormats \cup {
    <<"Y", "Y", "Y", "Y", "-", "M", "M", "-", "D", "D">>,  \* 'YYYY-MM-DD'
    <<"Y", "Y", "Y", "Y", "/", "M", "M", "/", "D", "D", " ", "d", "d", "d", "d">>,  \* 'YYYY/MM/DD dddd'
    <<"d", "d", "d", "d", ",", " ", "M", "M", "M", "M", " ", "D", "D", ",", " ", "Y", "Y", "Y", "Y">>,  \* 'dddd, MMMM DD, YYYY'
    <<"Y", "Y", "Y", "Y", "-", "M", "M", "-", "D", "D", " ", "-", " ", "d", "d", "d", "d">>,  \* 'YYYY-MM-DD - dddd'
    <<"M", "M", "M", " ", "D", ",", " ", "Y", "Y">>,  \* 'MMM D, YY'
    <<>> }

InitFmt ==
    /\ \E day \in DaysFromCivil(FmtFirstYear, 1, 1)..DaysFromCivil(FmtLastYear, 12, 31),
          h \in FmtHours, f \in Formats :
          fmt = [pc |-> "drawn", date |-> HoursPerDay * day + h, format |-> f]
    /\ cal = NoCal
    /\ inj = NoInj
    /\ subst = NoSub
    /\ PluginOff

FmtFormatDate ==
    /\ fmt.pc = "drawn"
    /\ fmt' = [pc |-> "done", date |-> fmt.date, format |-> fmt.format,
               out |-> formatDate(fmt.date, fmt.format)]
    /\ UNCHANGED <<cal, inj, subst, pluginVars>>

NextFmt == FmtFormatDate

SpecFmt == InitFmt /\ [][NextFmt]_vars

(***************************************************************************)
(* Frontmatter property injection.                                         *)
(***************************************************************************)
NL == "\n"
Dashes == <<"-", "-", "-">>
WhiteSpace == {" ", "\t", "\r", NL}

\* s.split('\n')
RECURSIVE split(_)
split(s) ==
    IF \A i \in 1..Len(s) : s[i] # NL THEN <<s>>
    ELSE LET k == CHOOSE i \in 1..Len(s) :
                      s[i] = NL /\ \A j \in 1..(i - 1) : s[j] # NL
         IN  <<SubSeq(s, 1, k - 1)>> \o split(SubSeq(s, k + 1, Len(s)))

\* lines.join('\n')
RECURSIVE join(_)
join(lines) ==
    IF Len(lines) = 0 THEN <<>>
    ELSE IF Len(lines) = 1 THEN lines[1]
    ELSE lines[1] \o <<NL>> \o join(Tail(lines))

\* s.trim()
RECURSIVE trim(_)
trim(s) ==
    IF Len(s) = 0 THEN s
    ELSE IF s[1] \in WhiteSpace THEN trim(Tail(s))
    ELSE IF s[Len(s)] \in WhiteSpace THEN trim(SubSeq(s, 1, Len(s) - 1))
    ELSE s

\* a splice that overwrites the line at start instead of inserting before it
spliceOverwrite(lines, start, item) ==
    SubSeq(lines, 1, start) \o <<item>> \o SubSeq(lines, start + 2, Len(lines))

\* lines.splice(start, 0, item), start counted from 0
splice(lines, start, item) ==
    SubSeq(lines, 1, start) \o <<item>> \o SubSeq(lines, start + 1, Len(lines))

\* a scan without the break: it ends on the last '---' line
closingDashIndexLast(lines) ==
    LET hits == {i \in 1..(Len(lines) - 1) : trim(lines[i + 1]) = Dashes}
    IN  IF hits = {} THEN -1
        ELSE CHOOSE i \in hits : \A j \in hits : i >= j

\* the index (from 0) of the first line after the opening one that is '---'
\* once trimmed, or -1
closingDashIndex(lines) ==
    LET hits == {i \in 1..(Len(lines) - 1) : trim(lines[i + 1]) = Dashes}
    IN  IF hits = {} THEN -1
        ELSE CHOOSE i \in hits : \A j \in hits : i <= j

\* a new block that is not followed by a blank line
newFrontmatterBlockNoBlank(weekPropertyLine) ==
    Dashes \o <<NL>> \o weekPropertyLine \o <<NL>> \o Dashes \o <<NL>>

\* `---\n${weekPropertyLine}\n---\n\n`
newFrontmatterBlock(weekPropertyLine) ==
    Dashes \o <<NL>> \o weekPropertyLine \o <<NL>> \o Dashes \o <<NL, NL>>

\* the key of a property line: the text before its first colon
keyOf(line) ==
    LET colons == {i \in 1..Len(line) : line[i] = ":"}
    IN  IF colons = {} THEN line
        ELSE SubSeq(line, 1, (CHOOSE i \in colons : \A j \in colons : i <= j) - 1)

\* an injection that replaces the line of a closed block that has the key
injectWeekPropertyOnce(templateContent, weekPropertyLine) ==
    LET lines == split(templateContent)
        held == {k \in 2..closingDashIndex(lines) :
                    keyOf(lines[k]) = keyOf(weekPropertyLine)}
    IN  IF Len(lines) > 0 /\ trim(lines[1]) = Dashes
        THEN IF closingDashIndex(lines) # -1
             THEN IF held # {}
                  THEN join([k \in 1..Len(lines) |->
                                IF k \in held THEN weekPropertyLine ELSE lines[k]])
                  ELSE join(splice(lines, closingDashIndex(lines), weekPropertyLine))
             ELSE join(splice(lines, 1, weekPropertyLine))
        ELSE newFrontmatterBlock(weekPropertyLine) \o templateContent

\* an injection that puts the line at the end of an unclosed block
injectWeekPropertyUnclosedAtEnd(templateContent, weekPropertyLine) ==
    LET lines == split(templateContent)
    IN  IF Len(lines) > 0 /\ trim(lines[1]) = Dashes
        THEN IF closingDashIndex(lines) # -1
             THEN join(splice(lines, closingDashIndex(lines), weekPropertyLine))
             ELSE join(splice(lines, Len(lines), weekPropertyLine))
        ELSE newFrontmatterBlock(weekPropertyLine) \o templateContent

\* the week property block of processNote
injectWeekProperty(templateContent, weekPropertyLine) ==
    LET lines == split(templateContent)
    IN  IF Len(lines) > 0 /\ trim(lines[1]) = Dashes
        THEN IF closingDashIndex(lines) # -1
             THEN join(splice(lines, closingDashIndex(lines), weekPropertyLine))
             ELSE join(splice(lines, 1, weekPropertyLine))
        ELSE newFrontmatterBlock(weekPropertyLine) \o templateContent

(***************************************************************************)
(* The injection on every body of at most MaxBodyLines lines drawn from    *)
(* InjLines, and two property lines.                                       *)
(***************************************************************************)
MaxBodyLines == 4

LineFoo == <<"f", "o", "o", ":", " ", "1">>
LineWeek5 == <<"w", "e", "e", "k", ":", " ", "5">>
LineBodyText == <<"B", "o", "d", "y", " ", "t", "e", "x", "t">>
LineNoHeader == <<"N", "o", " ", "h", "e", "a", "d", "e", "r", " ", "h", "e", "r", "e">>
LineSprint == <<"s", "p", "r", "i", "n", "t", "_", "w", "e", "e", "k", ":", " ", "1", "2">>
LineWeek7 == <<"w", "e", "e", "k", ":", " ", "7">>

InjLines == {
    Dashes,
    <<" ">> \o Dashes,
    Dashes \o <<" ">>,
    <<>>,
    LineFoo,
    LineWeek5,
    LineBodyText,
    LineNoHeader }

PropertyLines == {LineWeek5, LineSprint, LineWeek7}

\* the text whose lines are ls
RECURSIVE Text(_)
Text(ls) ==
    IF Len(ls) = 1 THEN ls[1]
    ELSE Text(SubSeq(ls, 1, Len(ls) - 1)) \o <<NL>> \o ls[Len(ls)]

InitInj ==
    /\ \E n \in 1..MaxBodyLines :
          \E ls \in [1..n -> InjLines], pl \in PropertyLines :
              inj = [pc |-> "drawn", lines |-> ls, body |-> Text(ls), line |-> pl]
    /\ cal = NoCal
    /\ fmt = NoFmt
    /\ subst = NoSub
    /\ PluginOff

InjInject ==
    /\ inj.pc = "drawn"
    /\ inj' = [pc |-> "done", lines |-> inj.lines, body |-> inj.body,
               line |-> inj.line, out |-> injectWeekProperty(inj.body, inj.line)]
    /\ UNCHANGED <<cal, fmt, subst, pluginVars>>

NextInj == InjInject

SpecInj == InitInj /\ [][NextInj]_vars

(***************************************************************************)
(* The plugin: settings, the vault, and processNote requests.              *)
(***************************************************************************)
DEFAULT_SETTINGS == [
    calendarFolderPath  |-> <<"C", "a", "l", "e", "n", "d", "a", "r">>,
    weeklyTemplatePath  |-> <<"T", "e", "m", "p", "l", "a", "t", "e", "s", "/", "W", "e", "e", "k", "l", "y", " ", "T", "e", "m", "p", "l", "a", "t", "e", ".", "m", "d">>,
    dailyTemplatePath   |-> <<"T", "e", "m", "p", "l", "a", "t", "e", "s", "/", "D", "a", "i", "l", "y", " ", "T", "e", "m", "p", "l", "a", "t", "e", ".", "m", "d">>,
    dailyFileNameFormat |-> <<"Y", "Y", "Y", "Y", "-", "M", "M", "-", "D", "D", ".", "m", "d">>,
    dailyDateFormat     |-> <<"Y", "Y", "Y", "Y", "-", "M", "M", "-", "D", "D">>,
    addWeekTag          |-> FALSE,
    weekTagPrefix       |-> <<"w", "e", "e", "k", "-">>,
    addWeekProperty     |-> FALSE,
    weekPropertyName    |-> <<"w", "e", "e", "k">>,
    fileNameFormat      |-> <<"W", "O", "{", "{", "w", "o", "y", "}", "}", ".", "m", "d">>,
    weekStartDateFormat |-> <<"Y", "Y", "Y", "Y", "-", "M", "M", "-", "D", "D">> ]

\* the settings a user may have saved: the defaults, the week property and
\* the week tag switched on, and the formats the settings tab suggests
SettingsChoices == {
    DEFAULT_SETTINGS,
    [DEFAULT_SETTINGS EXCEPT !.addWeekProperty = TRUE],
    [DEFAULT_SETTINGS EXCEPT !.addWeekProperty = TRUE, !.addWeekTag = TRUE,
                             !.dailyFileNameFormat = <<"{", "{", "d", "a", "t", "e", "}", "}", ".", "m", "d">>],
    [DEFAULT_SETTINGS EXCEPT !.dailyFileNameFormat = <<"{", "{", "d", "a", "t", "e", "}", "}">>,
                             !.dailyDateFormat = <<"Y", "Y", "Y", "Y", "/", "M", "M", "/", "D", "D", " ", "d", "d", "d", "d">>,
                             !.fileNameFormat = <<"W", "e", "e", "k", "l", "y", "-", "{", "{", "w", "s", "d", "}", "}", ".", "m", "d">>] }

\* the keys of the replacements object
KeyWoy == <<"{", "{", "w", "o", "y", "}", "}">>
KeyWeekOfYear == <<"{", "{", "w", "e", "e", "k", "_", "o", "f", "_", "y", "e", "a", "r", "}", "}">>
KeyWsd == <<"{", "{", "w", "s", "d", "}", "}">>
KeyWeekStartDate == <<"{", "{", "w", "e", "e", "k", "_", "s", "t", "a", "r", "t", "_", "d", "a", "t", "e", "}", "}">>
KeyDate == <<"{", "{", "d", "a", "t", "e", "}", "}">>
\* the key the daily fallback looks up
KeyDateTruncated == <<"{", "{", "d", "a", "t", "e", "}">>

Undefined == <<"u", "n", "d", "e", "f", "i", "n", "e", "d">>
Md == <<".", "m", "d">>
Slash == "/"

\* obj[key] inside a template literal: a missing key reads as undefined
lookup(obj, key) ==
    IF \E i \in 1..Len(obj) : obj[i][1] = key
    THEN obj[CHOOSE i \in 1..Len(obj) : obj[i][1] = key][2]
    ELSE Undefined

\* for (const placeholder in replacements) text = text.replace(...)
RECURSIVE applyReplacements(_, _)
applyReplacements(text, obj) ==
    IF Len(obj) = 0 THEN text
    ELSE applyReplacements(replaceAll(text, obj[1][1], obj[1][2]), Tail(obj))

\* the folder part of a path: up to its last '/'
parentOf(path) ==
    LET cuts == {i \in 1..Len(path) : path[i] = Slash}
    IN  IF cuts = {} THEN <<>>
        ELSE SubSeq(path, 1, (CHOOSE i \in cuts : \A j \in cuts : i >= j) - 1)

\* the templates a vault may hold at the template paths
TemplateChoices == {
    <<"-", "-", "-", "\n", "d", "a", "t", "e", ":", " ", "{", "{", "d", "a", "t", "e", "}", "}", "\n", "w", "e", "e", "k", ":", " ", "{", "{", "w", "o", "y", "}", "}", "\n", "-", "-", "-", "\n", "\n", "#", " ", "{", "{", "d", "a", "t", "e", "}", "}">>,
    <<"#", " ", "W", "e", "e", "k", " ", "{", "{", "w", "e", "e", "k", "_", "o", "f", "_", "y", "e", "a", "r", "}", "}", " ", "-", " ", "{", "{", "w", "e", "e", "k", "_", "s", "t", "a", "r", "t", "_", "d", "a", "t", "e", "}", "}", "\n", "-", " ", "[", "[", "{", "{", "w", "s", "d", "}", "}", "]", "]">>,
    <<"-", "-", "-", "\n", "f", "o", "o", ":", " ", "1">>,
    <<"-", "-", "-", "\n", "f", "o", "o", ":", " ", "1", "\n", "-", "-", "-", " ", "\n", "B", "o", "d", "y", " ", "t", "e", "x", "t">>,
    <<>> }

\* the instants at which commands are run
Clocks == {
    HoursPerDay * DaysFromCivil(2024, 12, 29) + 12,
    HoursPerDay * DaysFromCivil(2024, 12, 30) + 3,
    HoursPerDay * DaysFromCivil(2024, 5, 4) + 20 }

\* the instants and zones at which commands are run: every instant in every
\* fixed-offset zone, and New York at 2024-11-03T04:00Z, local midnight at
\* the start of the 25-hour day on which daylight saving ends
Moments ==
    (Clocks \X Zones)
        \cup {<<HoursPerDay * DaysFromCivil(2024, 11, 3) + 4, "America/New_York">>}

MaxRequests == 2
Reqs == 1..MaxRequests
Commands == {"weekly", "daily", "tomorrow"}

Idle == [pc |-> "idle"]

\* an extension step that appends whatever the name ends with
ensureMdAlways(fileName) == fileName \o Md

\* if (!fileName.endsWith('.md')) fileName += '.md'
ensureMd(fileName) == IF ~endsWith(fileName, Md) THEN fileName \o Md ELSE fileName

\* the date processNote is given: processTomorrowNote adds 24 hours to now
targetDate(cmd, t) == IF cmd = "tomorrow" THEN t + HoursPerDay ELSE t

\* the note type the command passes
noteTypeOf(cmd) == IF cmd = "weekly" THEN "weekly" ELSE "daily"

\* the replacements object, its keys in insertion order
replacementsOf(weekOfYear, formattedWeekStartDate, formattedDate) == <<
    <<KeyWoy, toString(weekOfYear)>>,
    <<KeyWeekOfYear, toString(weekOfYear)>>,
    <<KeyWsd, formattedWeekStartDate>>,
    <<KeyWeekStartDate, formattedWeekStartDate>>,
    <<KeyDate, formattedDate>> >>

\* the file name: the format of the note type with the placeholders replaced
fileNameOf(noteType, replacements, st) ==
    ensureMd(applyReplacements(
        IF noteType = "weekly" THEN st.fileNameFormat ELSE st.dailyFileNameFormat,
        replacements))

\* the locals of a processNote call before its first use of the vault
request(cmd, now, weekOfYear, replacements, fileName, st) ==
    [ pc |-> "resolved", cmd |-> cmd, noteType |-> noteTypeOf(cmd), now |-> now,
      weekOfYear |-> weekOfYear, replacements |-> replacements,
      fileName |-> fileName,
      folderPath |-> st.calendarFolderPath,
      fullPath |-> st.calendarFolderPath \o <<Slash>> \o fileName,
      templatePath |-> IF noteTypeOf(cmd) = "weekly" THEN st.weeklyTemplatePath
                       ELSE st.dailyTemplatePath,
      settingsAtStart |-> st,    \* the settings when the call began
      calls |-> <<>>,            \* the vault and workspace calls made, in order
      folderAtStart |-> "unset", \* what the folder lookup found
      noteAtStart |-> "unset",   \* whether the note existed when the call began
      found |-> "unset",         \* what the note lookup found
      template |-> "unset",      \* "read", "missing" or "unreadable"
      templateContent |-> <<>>,  \* the template or the fallback body
      substituted |-> <<>>,      \* after the placeholder replacements
      content |-> <<>>,          \* what vault.create is given
      opened |-> <<>>,           \* the paths given to openLinkText
      error |-> "none" ]         \* the call whose failure ended the request

\* the locals once the file name is resolved from the replacements
named(cmd, now, weekOfYear, replacements, st) ==
    request(cmd, now, weekOfYear, replacements,
            fileNameOf(noteTypeOf(cmd), replacements, st), st)

\* processNote up to its first use of the vault: week data, replacements,
\* file name and paths for the date now
resolve(cmd, now, z, st) ==
    named(cmd, now, getWeekOfYear(now, z),
          replacementsOf(getWeekOfYear(now, z),
                         formatDate(getISOWeekStartDate(now, z), st.weekStartDateFormat),
                         formatDate(now, st.dailyDateFormat)),
          st)

\* the fallback bodies
fallbackContent(rq) ==
    IF rq.noteType = "weekly"
    THEN <<"#", " ", "W", "e", "e", "k", "l", "y", " ", "N", "o", "t", "e", " ", "W", "O">> \o toString(rq.weekOfYear) \o <<NL, NL>>
    ELSE <<"#", " ", "D", "a", "i", "l", "y", " ", "N", "o", "t", "e", " ">> \o lookup(rq.replacements, KeyDateTruncated) \o <<NL, NL>>

\* if (addWeekProperty): the property line goes into the frontmatter
addProperty(content, st, weekOfYear) ==
    IF st.addWeekProperty
    THEN injectWeekProperty(content,
             st.weekPropertyName \o <<":", " ">> \o toString(weekOfYear))
    ELSE content

\* the tag is appended whatever the toggle says
appendWeekTagAlways(content, st, weekOfYear) ==
    content \o <<NL, NL, "#">> \o st.weekTagPrefix \o toString(weekOfYear)

\* if (addWeekTag): templateContent += `\n\n#${weekTagPrefix}${weekOfYear}`
appendWeekTag(content, st, weekOfYear) ==
    IF st.addWeekTag
    THEN content \o <<NL, NL, "#">> \o st.weekTagPrefix \o toString(weekOfYear)
    ELSE content

\* the note is opened when vault.create is called, not when it has returned
creatingOpensFirst(rq, templateContent, substituted, st) ==
    [rq EXCEPT !.pc = "create",
               !.templateContent = templateContent,
               !.substituted = substituted,
               !.content = appendWeekTag(addProperty(substituted, st, rq.weekOfYear),
                                         st, rq.weekOfYear),
               !.opened = @ \o <<rq.fullPath>>,
               !.calls = @ \o <<"open", "create">>]

\* the request about to call vault.create
creating(rq, templateContent, substituted, st) ==
    [rq EXCEPT !.pc = "create",
               !.templateContent = templateContent,
               !.substituted = substituted,
               !.content = appendWeekTag(addProperty(substituted, st, rq.weekOfYear),
                                         st, rq.weekOfYear),
               !.calls = @ \o <<"create">>]

\* from the template content to the vault.create call
compose(rq, templateContent, st) ==
    creating(rq, templateContent,
             applyReplacements(templateContent, rq.replacements), st)

\* whether the vault holds a file at path
present(path, fs) == IF path \in DOMAIN fs THEN "yes" ELSE "no"

\* a lookup that never finds the note
afterFolderSkipsLookup(rq, st, fs) ==
    IF rq.templatePath \in DOMAIN fs
    THEN [rq EXCEPT !.pc = "read", !.found = "no",
                    !.calls = @ \o <<"lookupNote", "lookupTemplate", "read">>]
    ELSE compose([rq EXCEPT !.found = "no", !.template = "missing",
                            !.calls = @ \o <<"lookupNote", "lookupTemplate">>],
                 fallbackContent(rq), st)

\* the template is looked up and read before the note is looked up
afterFolderReadsFirst(rq, st, fs) ==
    IF rq.templatePath \in DOMAIN fs
    THEN [rq EXCEPT !.pc = "read", !.found = present(rq.fullPath, fs),
                    !.calls = @ \o <<"lookupTemplate", "read", "lookupNote">>]
    ELSE compose([rq EXCEPT !.found = "no", !.template = "missing",
                            !.calls = @ \o <<"lookupNote", "lookupTemplate">>],
                 fallbackContent(rq), st)

\* from the note lookup to the next await (or the end)
afterFolder(rq, st, fs) ==
    IF rq.fullPath \in DOMAIN fs
    THEN [rq EXCEPT !.pc = "done", !.found = "yes",
                    !.opened = @ \o <<rq.fullPath>>,
                    !.calls = @ \o <<"lookupNote", "open">>]
    ELSE IF rq.templatePath \in DOMAIN fs
    THEN [rq EXCEPT !.pc = "read", !.found = "no",
                    !.calls = @ \o <<"lookupNote", "lookupTemplate", "read">>]
    ELSE compose([rq EXCEPT !.found = "no", !.template = "missing",
                            !.calls = @ \o <<"lookupNote", "lookupTemplate">>],
                 fallbackContent(rq), st)

\* a failure after which the note is opened all the same
failedThenOpens(rq, call) ==
    [rq EXCEPT !.pc = "done", !.error = call, !.opened = @ \o <<rq.fullPath>>]

\* a request whose awaited call threw
failed(rq, call) == [rq EXCEPT !.pc = "done", !.error = call]

Init ==
    /\ cal = NoCal
    /\ fmt = NoFmt
    /\ inj = NoInj
    /\ subst = NoSub
    /\ settings \in SettingsChoices
    /\ \E moment \in Moments : clock = moment[1] /\ tz = moment[2]
    /\ \E hasFolder \in BOOLEAN, tpls \in {<<>>} \cup {<<t>> : t \in TemplateChoices} :
          /\ folders = (IF hasFolder THEN {settings.calendarFolderPath} ELSE {})
                       \cup (IF Len(tpls) = 1 THEN {parentOf(settings.weeklyTemplatePath)}
                             ELSE {})
          /\ files = IF Len(tpls) = 1
                     THEN (settings.weeklyTemplatePath :> tpls[1])
                          @@ (settings.dailyTemplatePath :> tpls[1])
                     ELSE <<>>
    /\ req = [r \in Reqs |-> Idle]

\* from the folder lookup to the first await (or the end)
begin(rq, st, fs, fds) ==
    IF rq.folderPath \in fds
    THEN afterFolder([rq EXCEPT !.folderAtStart = "yes",
                                !.noteAtStart = present(rq.fullPath, fs),
                                !.calls = @ \o <<"lookupFolder">>], st, fs)
    ELSE [rq EXCEPT !.pc = "createFolder", !.folderAtStart = "no",
                    !.noteAtStart = present(rq.fullPath, fs),
                    !.calls = @ \o <<"lookupFolder", "createFolder">>]

\* a command callback runs processNote up to its first await
Invoke(r, cmd) ==
    /\ req[r].pc = "idle"
    /\ \A q \in 1..(r - 1) : req[q].pc # "idle"
    /\ req' = [req EXCEPT ![r] =
            begin(resolve(cmd, targetDate(cmd, clock), tz, settings),
                  settings, files, folders)]
    /\ UNCHANGED <<cal, fmt, inj, subst, settings, clock, tz, folders, files>>

\* the vault performs createFolder: it fails on a path that exists
CreateFolderPerform(r) ==
    /\ req[r].pc = "createFolder"
    /\ IF req[r].folderPath \in folders \/ req[r].folderPath \in DOMAIN files
       THEN /\ req' = [req EXCEPT ![r].pc = "folderFailed"]
            /\ UNCHANGED folders
       ELSE /\ req' = [req EXCEPT ![r].pc = "folderCreated"]
            /\ folders' = folders \cup {req[r].folderPath}
    /\ UNCHANGED <<cal, fmt, inj, subst, settings, clock, tz, files>>

\* processNote resumes after await createFolder
CreateFolderResume(r) ==
    /\ req[r].pc \in {"folderCreated", "folderFailed"}
    /\ req' = [req EXCEPT ![r] =
            IF req[r].pc = "folderFailed" THEN failed(req[r], "createFolder")
            ELSE afterFolder(req[r], settings, files)]
    /\ UNCHANGED <<cal, fmt, inj, subst, settings, clock, tz, folders, files>>

\* await vault.read(templateFile) returns the content or throws
ReadReturn(r) ==
    /\ req[r].pc = "read"
    /\ \E ok \in BOOLEAN :
          req' = [req EXCEPT ![r] =
              IF ok /\ req[r].templatePath \in DOMAIN files
              THEN compose([req[r] EXCEPT !.template = "read"],
                           files[req[r].templatePath], settings)
              ELSE failed([req[r] EXCEPT !.template = "unreadable"], "read")]
    /\ UNCHANGED <<cal, fmt, inj, subst, settings, clock, tz, folders, files>>

\* await vault.create(fullPath, templateContent) returns the new file, which
\* is opened, or throws: on a path that exists, or without the parent folder
CreateReturn(r) ==
    /\ req[r].pc = "create"
    /\ IF \/ req[r].fullPath \in DOMAIN files
          \/ req[r].fullPath \in folders
          \/ parentOf(req[r].fullPath) \notin folders
       THEN /\ req' = [req EXCEPT ![r] = failed(req[r], "create")]
            /\ UNCHANGED files
       ELSE /\ req' = [req EXCEPT ![r].pc = "done",
                                  ![r].opened = @ \o <<req[r].fullPath>>,
                                  ![r].calls = @ \o <<"open">>]
            /\ files' = (req[r].fullPath :> req[r].content) @@ files
    /\ UNCHANGED <<cal, fmt, inj, subst, settings, clock, tz, folders>>

Next ==
    \/ \E r \in Reqs, cmd \in Commands : Invoke(r, cmd)
    \/ \E r \in Reqs : CreateFolderPerform(r)
    \/ \E r \in Reqs : CreateFolderResume(r)
    \/ \E r \in Reqs : ReadReturn(r)
    \/ \E r \in Reqs : CreateReturn(r)

Spec == Init /\ [][Next]_vars

\* request r awaits a call
Awaiting(r) ==
    req[r].pc \in {"createFolder", "folderCreated", "folderFailed", "read", "create"}

\* the awaited call of request r returns or throws and processNote goes on
Returns(r) ==
    \/ CreateFolderPerform(r)
    \/ CreateFolderResume(r)
    \/ ReadReturn(r)
    \/ CreateReturn(r)

\* a step no action takes (no action gives a request the position
\* "answered"), enabled exactly when Returns(r) is: put before Returns(r)
\* in the fairness condition it lets ENABLED be decided from the position
\* alone, without composing the content of the note
Answered(r) ==
    /\ Awaiting(r)
    /\ req' = [req EXCEPT ![r].pc = "answered"]
    /\ UNCHANGED <<cal, fmt, inj, subst, settings, clock, tz, folders, files>>

\* (the course of a request does not depend on the date: one instant)
InitLive ==
    /\ Init
    /\ clock = HoursPerDay * DaysFromCivil(2024, 12, 29) + 12
    /\ tz = "UTC"

\* every awaited call returns or fails: a request that awaits is resumed.
\* As no step of Next is an Answered step, the condition is
\* WF_vars(Returns(r)) for every request.
SpecLive ==
    /\ InitLive
    /\ [][Next]_vars
    /\ \A r \in Reqs : WF_vars(Answered(r) \/ Returns(r))

(***************************************************************************)
(* The plugin with its settings tab open: one of the two toggles is        *)
(* switched while a processNote call awaits.                               *)
(***************************************************************************)
\* the settings are those every call made so far began with
SettingsUntouched == \A r \in Reqs : req[r].pc # "idle" => req[r].settingsAtStart = settings

\* a settings change comes in while a call awaits; one change is followed
SettingsMayChange == SettingsUntouched /\ \E r \in Reqs : Awaiting(r)

\* the onChange handler of the 'Add Week Number Tag to Note' toggle
SetAddWeekTag ==
    /\ SettingsMayChange
    /\ settings' = [settings EXCEPT !.addWeekTag = ~settings.addWeekTag]
    /\ UNCHANGED <<cal, fmt, inj, subst, clock, tz, folders, files, req>>

\* the onChange handler of the 'Add Week Property to Note Frontmatter' toggle
SetAddWeekProperty ==
    /\ SettingsMayChange
    /\ settings' = [settings EXCEPT !.addWeekProperty = ~settings.addWeekProperty]
    /\ UNCHANGED <<cal, fmt, inj, subst, clock, tz, folders, files, req>>

NextSet ==
    \/ Next
    \/ SetAddWeekTag
    \/ SetAddWeekProperty

SpecSet == InitLive /\ [][NextSet]_vars

(***************************************************************************)
(* The shipped main.js next to the source: its weekly command differs     *)
(* from processNote('weekly') in formatDate and in the replacements; its  *)
(* week functions and everything from the folder lookup on are the same   *)
(* statements, so its requests go on through the same actions.            *)
(***************************************************************************)
\* main.js formatDate: local getters, and YYYY, MM, DD only
formatDateJs(date, format, zone) ==
    LET year  == getFullYear(date, zone)
        month == padStart2(toString(getMonth(date, zone) + 1))
        day   == padStart2(toString(getDate(date, zone)))
        s1 == replaceAll(format, <<"Y", "Y", "Y", "Y">>, toString(year))
        s2 == replaceAll(s1, <<"M", "M">>, month)
        s3 == replaceAll(s2, <<"D", "D">>, day)
    IN  s3

\* main.js replacements: no {{date}}
replacementsOfJs(weekOfYear, formattedWeekStartDate) == <<
    <<KeyWoy, toString(weekOfYear)>>,
    <<KeyWeekOfYear, toString(weekOfYear)>>,
    <<KeyWsd, formattedWeekStartDate>>,
    <<KeyWeekStartDate, formattedWeekStartDate>> >>

\* the locals of main.js processWeeklyNote once the file name is resolved
namedJs(now, weekOfYear, replacements, st) ==
    [request("weekly", now, weekOfYear, replacements,
             fileNameOf("weekly", replacements, st), st)
        EXCEPT !.cmd = "main.js"]

\* main.js processWeeklyNote up to its first use of the vault
resolveJs(now, z, st) ==
    namedJs(now, getWeekOfYear(now, z),
            replacementsOfJs(getWeekOfYear(now, z),
                             formatDateJs(getISOWeekStartDate(now, z),
                                          st.weekStartDateFormat, z)),
            st)

\* the weekly command of main.js runs up to its first await
InvokeJs(r) ==
    /\ req[r].pc = "idle"
    /\ \A q \in 1..(r - 1) : req[q].pc # "idle"
    /\ req' = [req EXCEPT ![r] =
            begin(resolveJs(clock, tz, settings), settings, files, folders)]
    /\ UNCHANGED <<cal, fmt, inj, subst, settings, clock, tz, folders, files>>

NextJs ==
    \/ \E r \in Reqs : InvokeJs(r)
    \/ \E r \in Reqs : Invoke(r, "weekly")
    \/ \E r \in Reqs : CreateFolderPerform(r)
    \/ \E r \in Reqs : CreateFolderResume(r)
    \/ \E r \in Reqs : ReadReturn(r)
    \/ \E r \in Reqs : CreateReturn(r)

SpecJs == Init /\ [][NextJs]_vars

(***************************************************************************)
(* The placeholder substitution and the extension step on their own: a    *)
(* text (a file name format or a template), the replacements of a date    *)
(* under a pair of date formats, and an order in which the placeholders   *)
(* are iterated (the code iterates in insertion order, order 1 2 3 4 5).  *)
(***************************************************************************)
\* file name formats and templates
SubTexts == {
    <<"W", "O", "{", "{", "w", "o", "y", "}", "}", ".", "m", "d">>,
    <<"W", "e", "e", "k", "l", "y", "-", "{", "{", "w", "s", "d", "}", "}", ".", "m", "d">>,
    <<"{", "{", "d", "a", "t", "e", "}", "}">>,
    <<"Y", "Y", "Y", "Y", "-", "M", "M", "-", "D", "D", ".", "m", "d">>,
    <<"{", "{", "w", "o", "y", "}", "}", "\n", "{", "{", "w", "e", "e", "k", "_", "o", "f", "_", "y", "e", "a", "r", "}", "}", "\n", "{", "{", "w", "s", "d", "}", "}", "\n", "{", "{", "w", "e", "e", "k", "_", "s", "t", "a", "r", "t", "_", "d", "a", "t", "e", "}", "}">>,
    <<"{", "{", "w", "s", "d", "}", "}", "=", "{", "{", "w", "e", "e", "k", "_", "s", "t", "a", "r", "t", "_", "d", "a", "t", "e", "}", "}", ".", "m", "d">>,
    <<"#", " ", "{", "{", "d", "a", "t", "e", "}", "}", "\n", "w", "e", "e", "k", " ", "{", "{", "w", "e", "e", "k", "_", "o", "f", "_", "y", "e", "a", "r", "}", "}", " ", "f", "r", "o", "m", " ", "{", "{", "w", "e", "e", "k", "_", "s", "t", "a", "r", "t", "_", "d", "a", "t", "e", "}", "}">>,
    <<"W", "e", "e", "k", "-", "{", "{", "w", "o", "y", "}", "}", "-", "{", "{", "w", "s", "d", "}", "}", ".", "m", "d">>,
    <<"n", "o", "t", "e", ".", "M", "D">>,
    <<".", "m", "d">>,
    <<>> }

\* week start date formats: the default, one with a month name, and one
\* whose rendered value holds the text of a placeholder
SubWeekStartDateFormats == {
    <<"Y", "Y", "Y", "Y", "-", "M", "M", "-", "D", "D">>,
    <<"M", "M", "M", " ", "D", ",", " ", "Y", "Y", "Y", "Y">>,
    <<"Y", "Y", "Y", "Y", "-", "M", "M", "-", "D", "D", " ", "{", "{", "w", "e", "e", "k", "_", "s", "t", "a", "r", "t", "_", "d", "a", "t", "e", "}", "}">> }

\* daily date formats: the default and one whose rendered value holds the
\* text of a placeholder
SubDailyDateFormats == {
    <<"Y", "Y", "Y", "Y", "-", "M", "M", "-", "D", "D">>,
    <<"Y", "Y", "Y", "Y", "-", "M", "M", "-", "D", "D", " ", "W", "{", "{", "w", "o", "y", "}", "}">> }

\* the orders in which five keys can be iterated
Orders == {p \in [1..5 -> 1..5] : \A i, j \in 1..5 : p[i] = p[j] => i = j}
InsertionOrder == [i \in 1..5 |-> i]

\* the replacements object with its keys in the order p
reorder(obj, p) == [i \in 1..5 |-> obj[p[i]]]

InitSub ==
    /\ \E now \in Clocks, wf \in SubWeekStartDateFormats, df \in SubDailyDateFormats :
       \E replacements \in
              {replacementsOf(getWeekOfYear(now, "UTC"),
                              formatDate(getISOWeekStartDate(now, "UTC"), wf),
                              formatDate(now, df))} :
       \E text \in SubTexts, order \in Orders :
          subst = [ pc |-> "drawn", text |-> text, now |-> now, order |-> order,
                    weekStartDateFormat |-> wf, dailyDateFormat |-> df,
                    replacements |-> replacements ]
    /\ cal = NoCal
    /\ fmt = NoFmt
    /\ inj = NoInj
    /\ PluginOff

\* the substitution loop over the text, in insertion order and in the drawn
\* order, and the extension step on the result
SubSubstitute ==
    /\ subst.pc = "drawn"
    /\ subst' = [ pc |-> "done", text |-> subst.text, now |-> subst.now,
                  order |-> subst.order,
                  weekStartDateFormat |-> subst.weekStartDateFormat,
                  dailyDateFormat |-> subst.dailyDateFormat,
                  replacements |-> subst.replacements,
                  out |-> applyReplacements(subst.text, subst.replacements),
                  reordered |-> applyReplacements(subst.text,
                                    reorder(subst.replacements, subst.order)),
                  fileName |-> ensureMd(applyReplacements(subst.text,
                                                          subst.replacements)) ]
    /\ UNCHANGED <<cal, fmt, inj, pluginVars>>

NextSub == SubSubstitute

SpecSub == InitSub /\ [][NextSub]_vars

(***************************************************************************)
(* Claims about the calendar calculator (checked under SpecCal).           *)
(***************************************************************************)
\* the local calendar day (days since 1970-01-01) of a Date in a zone
LocalDay(t, zone) == (t + Offset(zone, t)) \div HoursPerDay

\* ISO 8601, stated without the Thursday shift: week 1 of year y is the
\* Monday-Sunday week that holds the first Thursday of y
MondayIndex(n) == (n + 3) % 7
FirstThursday(y) ==
    LET jan1 == DaysFromCivil(y, 1, 1)
    IN  jan1 + (((3 - MondayIndex(jan1)) + 7) % 7)
Week1Start(y) == FirstThursday(y) - 3
IsoWeekRef(n) ==
    LET y == CivilFromDays(n).year
    IN  IF n >= Week1Start(y + 1) THEN 1
        ELSE IF n < Week1Start(y) THEN (n - Week1Start(y - 1)) \div 7 + 1
        ELSE (n - Week1Start(y)) \div 7 + 1

CalIsLocalDate(y, m, d) ==
    /\ cal.pc # "off"
    /\ LocalDay(cal.date, cal.zone) = DaysFromCivil(y, m, d)

\* C1: for every date D and every zone, getISOWeekStartDate(D) is a Monday
\* and getWeekOfYear(getISOWeekStartDate(D)) = getWeekOfYear(D).
C1_WeekStartIsMondayOfSameWeek ==
    cal.pc = "done" =>
        /\ getUTCDay(cal.weekStart) = 1
        /\ cal.startWeekNo = cal.weekNo

\* C2: getWeekOfYear returns the ISO 8601 week number, in 1..53, of the
\* Date's calendar date: week 1 is the Monday-Sunday week holding the year's
\* first Thursday; 2018-12-31, 2019-12-31 and 2024-01-01 are week 1; a late
\* December day whose week's Thursday is in the next year is week 1 and an
\* early January day whose week's Thursday is in the previous year is week
\* 52 or 53.
C2_WeekOfYearIsIsoWeek ==
    cal.pc \in {"week", "start", "done"} =>
        LET n == LocalDay(cal.date, cal.zone)
            c == CivilFromDays(n)
            thursday == n - MondayIndex(n) + 3
        IN  /\ cal.weekNo \in 1..53
            /\ cal.weekNo = IsoWeekRef(n)
            /\ CalIsLocalDate(2018, 12, 31) => cal.weekNo = 1
            /\ CalIsLocalDate(2019, 12, 31) => cal.weekNo = 1
            /\ CalIsLocalDate(2024, 1, 1) => cal.weekNo = 1
            /\ CivilFromDays(thursday).year > c.year => cal.weekNo = 1
            /\ CivilFromDays(thursday).year < c.year => cal.weekNo \in {52, 53}

\* a Sunday that is an early January day of the previous year's week 53
C2_Witness ==
    /\ cal.pc = "week"
    /\ CalIsLocalDate(2021, 1, 3)
    /\ cal.weekNo = 53

(***************************************************************************)
(* Claims about the date formatter (checked under SpecFmt).                *)
(***************************************************************************)
\* the value a lone token stands for, from the date's UTC fields
TokenValue(token, date) ==
    LET c  == UTCFields(date)
        wd == getUTCDay(date)
        two(n) == <<Digits[(n \div 10) + 1], Digits[(n % 10) + 1]>>
    IN  CASE token = <<"Y", "Y", "Y", "Y">> -> toString(c.year)
          [] token = <<"Y", "Y">>   -> two(c.year % 100)
          [] token = <<"M", "M", "M", "M">> -> monthNames[c.month]
          [] token = <<"M", "M", "M">>  -> SubSeq(monthNames[c.month], 1, 3)
          [] token = <<"M", "M">>   -> two(c.month)
          [] token = <<"M">>    -> toString(c.month)
          [] token = <<"D", "D">>   -> two(c.day)
          [] token = <<"D">>    -> toString(c.day)
          [] token = <<"d", "d", "d", "d">> -> dayNames[wd + 1]
          [] token = <<"d", "d", "d">>  -> SubSeq(dayNames[wd + 1], 1, 3)

\* C4: for every date and every recognized token T, formatDate(date, T) is
\* exactly the token's value (full or 3-letter month and weekday names,
\* padded or bare month and day numbers, year or its last two digits): no
\* later replacement consumes characters of an earlier token's output.
C4_LoneTokenGivesItsValue ==
    (fmt.pc = "done" /\ fmt.format \in TokenFormats) =>
        fmt.out = TokenValue(fmt.format, fmt.date)

(***************************************************************************)
(* Claims about the frontmatter injection (checked under SpecInj).         *)
(***************************************************************************)
\* a line that is '---' between nothing but white space
IsDashLine(l) ==
    \E i \in 1..(Len(l) - 2) :
        /\ SubSeq(l, i, i + 2) = Dashes
        /\ \A j \in 1..Len(l) : j \notin i..(i + 2) => l[j] \in WhiteSpace

\* ls with x put in as its k-th line
InsertAt(ls, k, x) ==
    [i \in 1..(Len(ls) + 1) |->
        IF i < k THEN ls[i] ELSE IF i = k THEN x ELSE ls[i - 1]]

\* ls without its k-th line
RemoveAt(ls, k) ==
    [i \in 1..(Len(ls) - 1) |-> IF i < k THEN ls[i] ELSE ls[i + 1]]

Least(S) == CHOOSE i \in S : \A j \in S : i <= j

ExampleClosedBody == 
    <<"-", "-", "-", "\n", "f", "o", "o", ":", " ", "1", "\n", "-", "-", "-", "\n", "B", "o", "d", "y", " ", "t", "e", "x", "t">>
ExampleClosedResult == 
    <<"-", "-", "-", "\n", "f", "o", "o", ":", " ", "1", "\n", "w", "e", "e", "k", ":", " ", "5", "\n", "-", "-", "-", "\n", "B", "o", "d", "y", " ", "t", "e", "x", "t">>
ExamplePlainResult == 
    <<"-", "-", "-", "\n", "w", "e", "e", "k", ":", " ", "5", "\n", "-", "-", "-", "\n", "\n", "N", "o", " ", "h", "e", "a", "d", "e", "r", " ", "h", "e", "r", "e">>

\* C6, as stated: when the first line trimmed is '---' and a later line is
\* '---', the property line goes immediately before the first later line
\* that is '---', and nothing else changes.
C6_InsertedBeforeFirstExactDashes ==
    LET exact == {k \in 2..Len(inj.lines) : inj.lines[k] = Dashes}
    IN  (inj.pc = "done" /\ IsDashLine(inj.lines[1]) /\ exact # {}) =>
            inj.out = Text(InsertAt(inj.lines, Least(exact), inj.line))

\* C6, amended: when the first line trimmed is '---' and a later line
\* trimmed is '---', the property line goes immediately before the first
\* later line that is '---' once trimmed, and nothing else changes; the
\* body "---\nfoo: 1\n---\nBody text" with "week: 5" gives
\* "---\nfoo: 1\nweek: 5\n---\nBody text".
C6_InsertedBeforeFirstClosingLine ==
    LET closing == {k \in 2..Len(inj.lines) : IsDashLine(inj.lines[k])}
    IN  /\ (inj.pc = "done" /\ IsDashLine(inj.lines[1]) /\ closing # {}) =>
                inj.out = Text(InsertAt(inj.lines, Least(closing), inj.line))
        /\ (inj.pc = "done" /\ inj.body = ExampleClosedBody /\ inj.line = LineWeek5) =>
                inj.out = ExampleClosedResult

\* a block with two closing candidates, the first one padded
C6_Witness ==
    /\ inj.pc = "done"
    /\ inj.lines = <<Dashes, LineFoo, Dashes \o <<" ">>, Dashes>>
    /\ inj.line = LineWeek5
    /\ inj.out = Text(<<Dashes, LineFoo, LineWeek5, Dashes \o <<" ">>, Dashes>>)

\* C7, as stated: when the first line is not '---', the result is '---',
\* the property line, '---', a blank line and then the body unchanged.
C7_PrependedUnlessFirstLineExactDashes ==
    (inj.pc = "done" /\ inj.lines[1] # Dashes) =>
        inj.out = Text(<<Dashes, inj.line, Dashes, <<>>, inj.body>>)

\* C7, amended: when the first line trimmed is not '---' (the empty body
\* included), the result is '---', the property line, '---', a blank line
\* and then the body unchanged; "No header here" with "week: 5" gives
\* "---\nweek: 5\n---\n\nNo header here".
C7_PrependedUnlessFirstLineTrimmedDashes ==
    /\ (inj.pc = "done" /\ ~IsDashLine(inj.lines[1])) =>
            inj.out = Text(<<Dashes, inj.line, Dashes, <<>>, inj.body>>)
    /\ (inj.pc = "done" /\ inj.body = LineNoHeader /\ inj.line = LineWeek5) =>
            inj.out = ExamplePlainResult

\* the empty body
C7_Witness ==
    /\ inj.pc = "done"
    /\ inj.body = <<>>
    /\ inj.line = LineWeek5
    /\ inj.out = Text(<<Dashes, LineWeek5, Dashes, <<>>, <<>>>>)

\* C9: the injection keeps every line of the body, in order: the output is
\* the body's lines with either the property line added at one place or
\* the four lines '---', property line, '---', '' added at the front.
C9_OriginalLinesPreserved ==
    inj.pc = "done" =>
        LET o == split(inj.out)
        IN  \/ \E p \in 1..Len(o) :
                  o[p] = inj.line /\ RemoveAt(o, p) = inj.lines
            \/ /\ Len(o) = Len(inj.lines) + 4
               /\ SubSeq(o, 1, 4) = <<Dashes, inj.line, Dashes, <<>>>>
               /\ SubSeq(o, 5, Len(o)) = inj.lines

\* an unclosed block followed by three different lines
C9_Witness ==
    /\ inj.pc = "done"
    /\ inj.lines = <<Dashes, LineFoo, <<>>, LineBodyText>>
    /\ split(inj.out) = <<Dashes, inj.line, LineFoo, <<>>, LineBodyText>>

(***************************************************************************)
(* Claims about processNote (checked under Spec).                          *)
(***************************************************************************)
\* sub occurs in s
Contains(s, sub) == \E i \in 1..Len(s) : MatchesAt(s, i, sub)

\* a civil date as YYYY-MM-DD
IsoDate(c) ==
    toString(c.year) \o <<"-">> \o padStart2(toString(c.month))
        \o <<"-">> \o padStart2(toString(c.day))

Started(r) == req[r].pc # "idle"

\* C3: under the default settings the file name the tomorrow command
\* resolves contains tomorrow's date as YYYY-MM-DD and differs from the
\* file name the daily command resolves at the same instant.
C3_TomorrowResolvesToItsOwnNote ==
    \A r \in Reqs :
        (settings = DEFAULT_SETTINGS /\ Started(r) /\ req[r].cmd = "tomorrow") =>
            /\ Contains(req[r].fileName,
                        IsoDate(LocalFields(clock + HoursPerDay, tz)))
            /\ req[r].fileName # resolve("daily", clock, tz, settings).fileName

WeekPropertyLineOf(r) ==
    settings.weekPropertyName \o <<":", " ">> \o toString(req[r].weekOfYear)
WeekTagSuffixOf(r) ==
    IF settings.addWeekTag
    THEN <<NL, NL, "#">> \o settings.weekTagPrefix \o toString(req[r].weekOfYear)
    ELSE <<>>
WithLineAt(r, k) ==
    Text(InsertAt(split(req[r].substituted), k, WeekPropertyLineOf(r)))
        \o WeekTagSuffixOf(r)

\* the request has its template content, read or generated
HasBody(r) == Started(r) /\ req[r].template \in {"read", "missing"}

\* the request ended with the note created with the content it composed
Created(r) ==
    /\ req[r].pc = "done" /\ req[r].error = "none"
    /\ req[r].fullPath \in DOMAIN files
    /\ files[req[r].fullPath] = req[r].content

\* C8, as stated: when the property is injected into a body whose first
\* line is '---' and that has no later line '---', nothing is raised: the
\* line becomes the second line and the request goes on to vault.create.
C8_UnclosedInsertedAfterOpeningExact ==
    \A r \in Reqs :
        LET lines == split(req[r].substituted)
        IN  (/\ HasBody(r) /\ settings.addWeekProperty
             /\ lines[1] = Dashes
             /\ \A k \in 2..Len(lines) : lines[k] # Dashes) =>
                /\ req[r].content = WithLineAt(r, 2)
                /\ "create" \in {req[r].calls[i] : i \in 1..Len(req[r].calls)}
                /\ req[r].error \in {"none", "create"}

\* C8, amended: when the property is injected into a body whose first line
\* trimmed is '---' and that has no later line that is '---' once trimmed,
\* nothing is raised: the line becomes the second line, the request goes
\* on to vault.create with that content, and a create that succeeds stores
\* it.
C8_UnclosedInsertedAfterOpening ==
    \A r \in Reqs :
        LET lines == split(req[r].substituted)
        IN  (/\ HasBody(r) /\ settings.addWeekProperty
             /\ IsDashLine(lines[1])
             /\ \A k \in 2..Len(lines) : ~IsDashLine(lines[k])) =>
                /\ req[r].content = WithLineAt(r, 2)
                /\ "create" \in {req[r].calls[i] : i \in 1..Len(req[r].calls)}
                /\ req[r].error \in {"none", "create"}
                /\ (req[r].pc = "done" /\ req[r].error = "none") => Created(r)

\* the unclosed template "---\nfoo: 1" in week 18, created
C8_Witness ==
    \E r \in Reqs :
        /\ HasBody(r) /\ settings.addWeekProperty /\ ~settings.addWeekTag
        /\ req[r].template = "read"
        /\ req[r].substituted = <<"-", "-", "-", "\n", "f", "o", "o", ":", " ", "1">>
        /\ req[r].weekOfYear = 18
        /\ Created(r)
        /\ files[req[r].fullPath] = <<"-", "-", "-", "\n", "w", "e", "e", "k", ":", " ", "1", "8", "\n", "f", "o", "o", ":", " ", "1">>

\* C10: a request whose template path names no file, or whose template
\* read fails, still calls vault.create with the fallback body of its note
\* type, and the read failure does not end it.
C10_TemplateFailureFallsBack ==
    \A r \in Reqs :
        (Started(r) /\ req[r].template \in {"missing", "unreadable"}) =>
            /\ req[r].error # "read"
            /\ "create" \in {req[r].calls[i] : i \in 1..Len(req[r].calls)}
            /\ req[r].templateContent = fallbackContent(req[r])

\* the number of times call occurs in the calls of request r
Count(r, call) == Cardinality({i \in 1..Len(req[r].calls) : req[r].calls[i] = call})

\* the last call of request r
LastCall(r) == req[r].calls[Len(req[r].calls)]

\* C11: a failed createFolder or create ends the request with that error:
\* after a failed createFolder the calls are the folder lookup and
\* createFolder only (no template lookup or read, no create, no open);
\* after a failed create nothing is opened and create was called once, as
\* the last call; and a request that has ended takes no further step.
C11_StorageFailureEndsRequest ==
    /\ [](\A r \in Reqs :
            /\ (Started(r) /\ req[r].error = "createFolder") =>
                    /\ req[r].pc = "done"
                    /\ req[r].calls = <<"lookupFolder", "createFolder">>
                    /\ req[r].template = "unset"
                    /\ req[r].opened = <<>>
            /\ (Started(r) /\ req[r].error = "create") =>
                    /\ req[r].pc = "done"
                    /\ req[r].opened = <<>>
                    /\ Count(r, "create") = 1
                    /\ LastCall(r) = "create")
    /\ [][\A r \in Reqs : req[r].pc = "done" => req'[r] = req[r]]_vars

\* one request whose createFolder failed next to one whose create failed
C11_Witness ==
    \E r, q \in Reqs :
        /\ Started(r) /\ req[r].error = "createFolder"
        /\ Started(q) /\ req[q].error = "create"

\* the local calendar day on which the commands are run
Today == LocalDay(clock, tz)

\* the Monday of the week of day n
MondayOf(n) == n - MondayIndex(n)

\* C12: a tomorrow request works from tomorrow's calendar date: its target
\* date is the day after today, its week number is the ISO week of that
\* day (the next week's when today is a Sunday), its week start date is
\* that week's Monday, the week property and week tag carry that number,
\* and run on 2024-12-30 it targets 2024-12-31 in week 1.
C12_TomorrowUsesTomorrowsWeek ==
    \A r \in Reqs :
        (Started(r) /\ req[r].cmd = "tomorrow") =>
            LET week == toString(IsoWeekRef(Today + 1))
            IN  /\ LocalDay(req[r].now, tz) = Today + 1
                /\ req[r].weekOfYear = IsoWeekRef(Today + 1)
                /\ MondayIndex(Today) = 6 =>
                        req[r].weekOfYear = IsoWeekRef(MondayOf(Today) + 7)
                /\ lookup(req[r].replacements, KeyWsd) =
                        IsoDate(CivilFromDays(MondayOf(Today + 1)))
                /\ Today = DaysFromCivil(2024, 12, 30) =>
                        /\ LocalDay(req[r].now, tz) = DaysFromCivil(2024, 12, 31)
                        /\ req[r].weekOfYear = 1
                /\ (HasBody(r) /\ settings.addWeekProperty) =>
                        Contains(req[r].content,
                                 settings.weekPropertyName \o <<":", " ">> \o week)
                /\ (HasBody(r) /\ settings.addWeekTag) =>
                        endsWith(req[r].content,
                                 <<"#">> \o settings.weekTagPrefix \o week)

(***************************************************************************)
(* More claims about the calendar calculator (checked under SpecCal).      *)
(***************************************************************************)
\* the Date at 00:00Z of the calendar date the drawn Date has in its zone
CalendarDateAtUTC ==
    LET c == CivilFromDays(LocalDay(cal.date, cal.zone))
    IN  DateUTC(c.year, c.month - 1, c.day)

AliasTemplate == <<"{", "{", "w", "o", "y", "}", "}", "\n", "{", "{", "w", "e", "e", "k", "_", "o", "f", "_", "y", "e", "a", "r", "}", "}", "\n", "{", "{", "w", "s", "d", "}", "}", "\n", "{", "{", "w", "e", "e", "k", "_", "s", "t", "a", "r", "t", "_", "d", "a", "t", "e", "}", "}">>
AliasFileNameFormat == <<"{", "{", "w", "s", "d", "}", "}", "=", "{", "{", "w", "e", "e", "k", "_", "s", "t", "a", "r", "t", "_", "d", "a", "t", "e", "}", "}", ".", "m", "d">>

\* C14: in one substitution the two week number aliases are replaced by
\* the same text and the two week start date aliases are replaced by the
\* same text, in a template and in a file name format, for every date and
\* every week start date format.
C14_AliasesReplacedAlike ==
    /\ (subst.pc = "done" /\ subst.text = AliasTemplate) =>
            LET lines == split(subst.out)
            IN  /\ Len(lines) = 4
                /\ lines[1] = lines[2]
                /\ lines[3] = lines[4]
    /\ (subst.pc = "done" /\ subst.text = AliasFileNameFormat) =>
            \E k \in 1..Len(subst.out) :
                /\ subst.out[k] = "="
                /\ SubSeq(subst.out, 1, k - 1) \o Md
                        = SubSeq(subst.out, k + 1, Len(subst.out))

(***************************************************************************)
(* More claims about the date formatter (checked under SpecFmt).           *)
(***************************************************************************)
IsDigit(c) == \E d \in 1..10 : Digits[d] = c

\* the number a string of decimal digits denotes
RECURSIVE ParseDigits(_)
ParseDigits(s) ==
    IF Len(s) = 0 THEN 0
    ELSE 10 * ParseDigits(SubSeq(s, 1, Len(s) - 1))
            + (CHOOSE d \in 0..9 : Digits[d + 1] = s[Len(s)])

IsoFormat == <<"Y", "Y", "Y", "Y", "-", "M", "M", "-", "D", "D">>

\* C15: for the format 'YYYY-MM-DD' formatDate returns four digits, '-',
\* two digits, '-', two digits, and the three digit groups read as numbers
\* are the year, the month and the day of the date.
C15_IsoFormatRoundTrip ==
    (fmt.pc = "done" /\ fmt.format = IsoFormat) =>
        LET c == CivilFromDays(fmt.date \div HoursPerDay)
        IN  /\ Len(fmt.out) = 10
            /\ \A i \in {1, 2, 3, 4, 6, 7, 9, 10} : IsDigit(fmt.out[i])
            /\ fmt.out[5] = "-" /\ fmt.out[8] = "-"
            /\ ParseDigits(SubSeq(fmt.out, 1, 4)) = c.year
            /\ ParseDigits(SubSeq(fmt.out, 6, 7)) = c.month
            /\ ParseDigits(SubSeq(fmt.out, 9, 10)) = c.day

\* a date whose month and day both need the padding
C15_Witness ==
    /\ fmt.pc = "done" /\ fmt.format = IsoFormat
    /\ fmt.date = DateUTC(FmtFirstYear, 2, 5) + 13
    /\ ParseDigits(SubSeq(fmt.out, 6, 7)) = 3
    /\ ParseDigits(SubSeq(fmt.out, 9, 10)) = 5

\* the last three characters of s are '.md'
HasMdSuffix(s) ==
    /\ Len(s) >= 3
    /\ s[Len(s) - 2] = "." /\ s[Len(s) - 1] = "m" /\ s[Len(s)] = "d"

\* C16: the resolved file name ends with '.md' exactly; the extension step
\* leaves a name that ends with '.md' as it is and appends '.md' to any
\* other one ('.MD' included), so applying it to its own result changes
\* nothing.
C16_ExtensionEnsuredOnce ==
    subst.pc = "done" =>
        /\ HasMdSuffix(subst.fileName)
        /\ HasMdSuffix(subst.out) => subst.fileName = subst.out
        /\ ~HasMdSuffix(subst.out) => subst.fileName = subst.out \o <<".", "m", "d">>
        /\ ensureMd(subst.fileName) = subst.fileName

\* a name with an upper case extension
C16_Witness ==
    /\ subst.pc = "done"
    /\ subst.out = <<"n", "o", "t", "e", ".", "M", "D">>
    /\ subst.fileName = <<"n", "o", "t", "e", ".", "M", "D", ".", "m", "d">>

(***************************************************************************)
(* More claims about processNote (checked under Spec).                     *)
(***************************************************************************)
Called(r, call) == Count(r, call) > 0

\* request r created its note, opened it, and the note holds its content
Won(r) ==
    /\ req[r].error = "none"
    /\ req[r].opened = <<req[r].fullPath>>
    /\ Created(r)

\* request r ended with the error of its create call, nothing opened
Lost(r) == req[r].error = "create" /\ req[r].opened = <<>>

\* C17: when two requests for the same path both found the note absent and
\* both called create, each called it once, and once both have ended
\* exactly one of them created and opened the note and the other ended
\* with the error of its create.
C17_RaceHasOneWinner ==
    \A r, q \in Reqs :
        (/\ r # q /\ Started(r) /\ Started(q)
         /\ req[r].fullPath = req[q].fullPath
         /\ req[r].found = "no" /\ req[q].found = "no"
         /\ Called(r, "create") /\ Called(q, "create")) =>
            /\ Count(r, "create") = 1 /\ Count(q, "create") = 1
            /\ (req[r].pc = "done" /\ req[q].pc = "done") =>
                    \/ Won(r) /\ Lost(q)
                    \/ Won(q) /\ Lost(r)

\* C19: whenever a request has called create for its full path, the parent
\* folder of that path exists.
C19_ParentFolderExistsAtCreate ==
    \A r \in Reqs :
        (Started(r) /\ Called(r, "create")) =>
            parentOf(req[r].fullPath) \in folders

\* every occurrence of call in the calls of request r comes after an
\* occurrence of earlier
Precedes(r, earlier, call) ==
    \A i \in 1..Len(req[r].calls) :
        req[r].calls[i] = call =>
            \E j \in 1..(i - 1) : req[r].calls[j] = earlier

\* request r has a call in flight exactly when it awaits, and it is the
\* last call it made
OneInFlight(r) ==
    /\ req[r].pc \in {"createFolder", "folderCreated", "folderFailed"} =>
           LastCall(r) = "createFolder"
    /\ req[r].pc = "read" => LastCall(r) = "read"
    /\ req[r].pc = "create" => LastCall(r) = "create"

\* C18 as stated: in every request the existence of the note is queried
\* before any createFolder, template read or file create is issued.
C18_LookupBeforeEveryCall ==
    \A r \in Reqs :
        Started(r) =>
            /\ Precedes(r, "lookupNote", "createFolder")
            /\ Precedes(r, "lookupNote", "read")
            /\ Precedes(r, "lookupNote", "create")

\* C18: in every request the calls are sequential (the call awaited is the
\* last one made), the existence of the note is queried once, before any
\* template read or file create, and createFolder, issued when the folder
\* lookup finds nothing, comes after the folder lookup and before the query
\* of the note.
C18_LookupBeforeReadAndCreate ==
    \A r \in Reqs :
        Started(r) =>
            /\ OneInFlight(r)
            /\ Count(r, "lookupNote") <= 1
            /\ Precedes(r, "lookupNote", "read")
            /\ Precedes(r, "lookupNote", "create")
            /\ Precedes(r, "lookupFolder", "createFolder")
            /\ Precedes(r, "createFolder", "lookupNote") \/ ~Called(r, "createFolder")
            /\ Called(r, "createFolder") <=> req[r].folderAtStart = "no"

\* a request that created the folder, queried the note, read the template
\* and created the note, in this order
C18_Witness ==
    \E r \in Reqs :
        /\ Started(r)
        /\ req[r].calls = <<"lookupFolder", "createFolder", "lookupNote",
                            "lookupTemplate", "read", "create", "open">>

(***************************************************************************)
(* More claims about the substitution (checked under SpecSub).            *)
(***************************************************************************)
\* C20: substituting the five placeholders in any order gives the string
\* the code's order gives, for every text and every pair of date formats,
\* also when a rendered value contains another placeholder token.
C20_OrderDoesNotMatter ==
    subst.pc = "done" => subst.reordered = subst.out

(***************************************************************************)
(* More claims about formatDate (checked under SpecFmt).                  *)
(***************************************************************************)
\* a reference formatter: every occurrence of each token of the list is
\* replaced, one token after the other in the order of the list
RECURSIVE ReferenceFormat(_, _, _)
ReferenceFormat(date, s, tokens) ==
    IF tokens = <<>> THEN s
    ELSE ReferenceFormat(date,
                         replaceAll(s, Head(tokens), TokenValue(Head(tokens), date)),
                         Tail(tokens))

\* 4-letter tokens, then 3-letter, then 2-letter, then 1-letter
LengthOrder == <<
    <<"Y", "Y", "Y", "Y">>, <<"M", "M", "M", "M">>, <<"d", "d", "d", "d">>,
    <<"M", "M", "M">>, <<"d", "d", "d">>,
    <<"Y", "Y">>, <<"M", "M">>, <<"D", "D">>,
    <<"M">>, <<"D">> >>

\* year, month, day, weekday; within each the longer token first
FieldOrder == <<
    <<"Y", "Y", "Y", "Y">>, <<"Y", "Y">>,
    <<"M", "M", "M", "M">>, <<"M", "M", "M">>, <<"M", "M">>, <<"M">>,
    <<"D", "D">>, <<"D">>,
    <<"d", "d", "d", "d">>, <<"d", "d", "d">> >>

\* C21 as stated: the output of formatDate equals that of the reference
\* formatter which replaces the 4-letter tokens, then the 3-letter, then
\* the 2-letter, then the 1-letter tokens.
C21_OutputOfLengthOrder ==
    fmt.pc = "done" =>
        fmt.out = ReferenceFormat(fmt.date, fmt.format, LengthOrder)

\* C21: the output of formatDate equals that of the reference formatter
\* which replaces the tokens field by field (year, month, day, weekday),
\* the longer token of a field before its shorter ones, every occurrence.
C21_OutputOfFieldOrder ==
    fmt.pc = "done" =>
        fmt.out = ReferenceFormat(fmt.date, fmt.format, FieldOrder)

\* a Monday formatted with its full weekday name, where the two orders
\* give different texts
C21_Witness ==
    /\ fmt.pc = "done"
    /\ fmt.format = <<"d", "d", "d", "d">>
    /\ fmt.out = <<"M", "o", "n", "d", "a", "y">>
    /\ ReferenceFormat(fmt.date, fmt.format, LengthOrder) # fmt.out

(***************************************************************************)
(* More claims about the created note (checked under Spec).               *)
(***************************************************************************)
\* C22: the fallback body of a daily note whose template is missing
\* contains the formatted date, the value of {{date}} of the request.
C22_DailyFallbackHoldsDate ==
    \A r \in Reqs :
        (/\ Started(r)
         /\ req[r].noteType = "daily"
         /\ req[r].template = "missing") =>
            Contains(req[r].templateContent, lookup(req[r].replacements, KeyDate))

\* C23: the calendar date a tomorrow request uses (the local year, month
\* and day of its target date) is the calendar successor of the local
\* calendar date of now, also on days a clock change makes longer or
\* shorter than 24 hours.
C23_TomorrowIsNextCalendarDay ==
    \A r \in Reqs :
        (Started(r) /\ req[r].cmd = "tomorrow") =>
            LocalFields(req[r].now, tz) = CivilFromDays(Today + 1)

(***************************************************************************)
(* More claims about the frontmatter injection (checked under SpecInj).   *)
(***************************************************************************)
\* the lines k of ls, after the first and before line c, that have the key
\* of the property line
WithKey(ls, c) == {k \in 2..(c - 1) : keyOf(ls[k]) = keyOf(inj.line)}

\* the first line of ls after the opening one that is '---' once trimmed
ClosingOf(ls) == Least({k \in 2..Len(ls) : IsDashLine(ls[k])})

\* the body has a closed frontmatter block that holds a line with the key
\* of the property line
HoldsKey ==
    /\ IsDashLine(inj.lines[1])
    /\ \E k \in 2..Len(inj.lines) : IsDashLine(inj.lines[k])
    /\ WithKey(inj.lines, ClosingOf(inj.lines)) # {}

\* C24: injecting into a body whose closed frontmatter block already holds
\* a line with the key of the property line drops and changes nothing:
\* every earlier line with the key stays where and what it was, the new
\* line is the last line of the block, right before the closing '---' line,
\* and the block has one more line with that key than before.
C24_SameKeyIsAddedAgain ==
    (inj.pc = "done" /\ HoldsKey) =>
        LET o == split(inj.out)
        IN  /\ Len(o) = Len(inj.lines) + 1
            /\ \A k \in WithKey(inj.lines, ClosingOf(inj.lines)) : o[k] = inj.lines[k]
            /\ ClosingOf(o) = ClosingOf(inj.lines) + 1
            /\ o[ClosingOf(o) - 1] = inj.line
            /\ Cardinality(WithKey(o, ClosingOf(o))) =
                   Cardinality(WithKey(inj.lines, ClosingOf(inj.lines))) + 1

\* 'week: 7' injected into the block that holds 'week: 5'
C24_Witness ==
    /\ inj.pc = "done"
    /\ inj.lines = <<Dashes, LineWeek5, Dashes, LineBodyText>>
    /\ inj.line = LineWeek7
    /\ split(inj.out) = <<Dashes, LineWeek5, LineWeek7, Dashes, LineBodyText>>

(***************************************************************************)
(* Claims about the course of a request (checked under SpecLive).         *)
(***************************************************************************)
\* how far a request has come
Rank(pc) ==
    CASE pc = "idle" -> 0
      [] pc = "createFolder" -> 1
      [] pc \in {"folderCreated", "folderFailed"} -> 2
      [] pc = "read" -> 3
      [] pc = "create" -> 4
      [] pc = "done" -> 5

OpenedExisting(r) ==
    /\ req[r].error = "none"
    /\ req[r].found = "yes"
    /\ req[r].opened = <<req[r].fullPath>>
    /\ ~Called(r, "create")

CreatedAndOpened(r) ==
    /\ req[r].error = "none"
    /\ req[r].found = "no"
    /\ req[r].opened = <<req[r].fullPath>>
    /\ Count(r, "create") = 1
    /\ Precedes(r, "create", "open")
    /\ req[r].fullPath \in DOMAIN files

EndedInError(r) ==
    /\ req[r].error # "none"
    /\ req[r].opened = <<>>

\* what holds of a request at every moment
OneOutcome(r) ==
    /\ Count(r, "lookupNote") <= 1
    /\ Len(req[r].opened) <= 1
    /\ Count(r, "open") = Len(req[r].opened)
    /\ req[r].opened # <<>> => req[r].pc = "done"
    /\ req[r].pc = "done" =>
           \/ OpenedExisting(r) /\ ~CreatedAndOpened(r) /\ ~EndedInError(r)
           \/ CreatedAndOpened(r) /\ ~OpenedExisting(r) /\ ~EndedInError(r)
           \/ EndedInError(r) /\ ~OpenedExisting(r) /\ ~CreatedAndOpened(r)

\* C25: when every awaited call returns or fails, every request that has
\* started ends; it never goes back (to the lookup or to any earlier
\* step) and takes no step once it has ended; it ends in exactly one of
\* 'opened existing', 'created and opened' and 'error'; the note is opened
\* at most once, only in the first two, and in 'created and opened' only
\* after the create call has succeeded.
C25_RequestEndsInOneOutcome ==
    /\ [](\A r \in Reqs : Started(r) => OneOutcome(r))
    /\ [][\A r \in Reqs : /\ Rank(req'[r].pc) >= Rank(req[r].pc)
                          /\ req[r].pc = "done" => req'[r] = req[r]]_vars
    /\ \A r \in Reqs : Started(r) ~> req[r].pc = "done"

\* one request of each outcome has ended
C25_Witness ==
    /\ \A r \in Reqs : req[r].pc = "done"
    /\ \E r, q \in Reqs : CreatedAndOpened(r) /\ EndedInError(q)

(***************************************************************************)
(* More claims about the replacements (checked under Spec).               *)
(***************************************************************************)
\* the calendar date of the target date of request r in the caller's zone,
\* the one getWeekOfYear works from, as a Date at 00:00 UTC
WeekDateOf(r) ==
    LET c == LocalFields(req[r].now, tz)
    IN  DateUTC(c.year, c.month - 1, c.day)

\* C26: in a daily request {{date}} renders the calendar date the week
\* number and the week start date of the request are computed from, at
\* every time of day and in every zone.
C26_DateIsTheWeeksDate ==
    \A r \in Reqs :
        (Started(r) /\ req[r].noteType = "daily") =>
            lookup(req[r].replacements, KeyDate) =
                formatDate(WeekDateOf(r), settings.dailyDateFormat)

(***************************************************************************)
(* Claims about settings changes (checked under SpecSet).                 *)
(***************************************************************************)
\* the file name and the template path of request r are those of settings st
ResolvedWith(r, st) ==
    /\ req[r].fileName = fileNameOf(req[r].noteType, req[r].replacements, st)
    /\ req[r].folderPath = st.calendarFolderPath
    /\ req[r].templatePath = IF req[r].noteType = "weekly" THEN st.weeklyTemplatePath
                             ELSE st.dailyTemplatePath

\* the content request r gives to vault.create has the week property and
\* the week tag as settings st ask for them
ComposedWith(r, st) ==
    req[r].content =
        appendWeekTag(addProperty(req[r].substituted, st, req[r].weekOfYear),
                      st, req[r].weekOfYear)

\* C27: a request that calls vault.create does so with the file name, the
\* template, the week property and the week tag of the settings as they
\* were when it started, whatever settings change came in between.
C27_OneConfigurationPerRequest ==
    \A r \in Reqs :
        (Started(r) /\ Called(r, "create")) =>
            /\ ResolvedWith(r, req[r].settingsAtStart)
            /\ ComposedWith(r, req[r].settingsAtStart)

(***************************************************************************)
(* Claims about the week number in a created note (checked under Spec).   *)
(***************************************************************************)
\* the text request r puts in for {{woy}}
WeekText(r) == lookup(req[r].replacements, KeyWoy)

\* the tag line of the note of request r
TagLine(r) == <<"#">> \o settings.weekTagPrefix \o WeekText(r)

\* the created note of request r without the two newlines and the tag line
\* at its end, when the tag is asked for
BeforeTag(r) ==
    IF settings.addWeekTag
    THEN SubSeq(files[req[r].fullPath], 1,
                Len(files[req[r].fullPath]) - Len(TagLine(r)) - 2)
    ELSE files[req[r].fullPath]

\* ls is ms with line x added at one place, or with the block '---', x,
\* '---', '' put in front
WithPropertyLine(ls, ms, x) ==
    \/ \E p \in 1..Len(ls) : ls[p] = x /\ RemoveAt(ls, p) = ms
    \/ /\ Len(ls) = Len(ms) + 4
       /\ SubSeq(ls, 1, 4) = <<Dashes, x, Dashes, <<>>>>
       /\ SubSeq(ls, 5, Len(ls)) = ms

\* C28: a created note has one week number: {{woy}} and {{week_of_year}}
\* are replaced by the same text, the decimal week number of the request;
\* with addWeekTag the note ends with two newlines and the tag line
\* '#<weekTagPrefix><n>' of that number, without it nothing is appended;
\* with addWeekProperty the rest is the substituted body with the line
\* '<weekPropertyName>: <n>' of that number put in, without it the rest is
\* the substituted body itself.
C28_OneWeekNumberInTheNote ==
    \A r \in Reqs :
        (Started(r) /\ Created(r)) =>
            /\ WeekText(r) = toString(req[r].weekOfYear)
            /\ lookup(req[r].replacements, KeyWeekOfYear) = WeekText(r)
            /\ settings.addWeekTag =>
                   /\ files[req[r].fullPath] = BeforeTag(r) \o <<NL, NL>> \o TagLine(r)
                   /\ LET ls == split(files[req[r].fullPath])
                      IN  /\ Len(ls) >= 3
                          /\ ls[Len(ls)] = TagLine(r)
                          /\ ls[Len(ls) - 1] = <<>>
            /\ IF settings.addWeekProperty
               THEN WithPropertyLine(split(BeforeTag(r)), split(req[r].substituted),
                        settings.weekPropertyName \o <<":", " ">> \o WeekText(r))
               ELSE BeforeTag(r) = req[r].substituted

\* a daily note of week 52 created from the README's template with the
\* property and the tag: 'week: 52' twice in the block, '#week-52' last
C28_Witness ==
    \E r \in Reqs :
        /\ Started(r) /\ Created(r)
        /\ settings.addWeekProperty /\ settings.addWeekTag
        /\ req[r].template = "read"
        /\ req[r].weekOfYear = 52
        /\ Contains(req[r].substituted, <<"w", "e", "e", "k", ":", " ", "5", "2", NL, "-", "-", "-">>)
        /\ Contains(files[req[r].fullPath],
                    <<"w", "e", "e", "k", ":", " ", "5", "2", NL, "w", "e", "e", "k", ":", " ", "5", "2", NL, "-", "-", "-">>)
        /\ endsWith(files[req[r].fullPath], <<NL, NL, "#", "w", "e", "e", "k", "-", "5", "2">>)

(***************************************************************************)
(* Claims about the shipped main.js (checked under SpecJs).               *)
(***************************************************************************)
\* C29: at the same settings, vault, clock and zone the weekly command of
\* main.js and processNote('weekly') of the source render the same week
\* start date, resolve the same file name and, from the same template
\* content, compose the same note content.
C29_ShippedScriptAgreesWithSource ==
    \A r, q \in Reqs :
        (/\ Started(r) /\ req[r].cmd = "weekly"
         /\ Started(q) /\ req[q].cmd = "main.js") =>
            /\ lookup(req[q].replacements, KeyWsd) = lookup(req[r].replacements, KeyWsd)
            /\ req[q].fileName = req[r].fileName
            /\ (/\ Called(r, "create") /\ Called(q, "create")
                /\ req[q].templateContent = req[r].templateContent) =>
                    req[q].content = req[r].content

=============================================================================
